---- MODULE Spec2Model ----
(***************************************************************************)
(* Vista Haven: VistaHavenAnalyzer (src/vistahaven_analysis.py).           *)
(*                                                                         *)
(* Units.  Money is held in cents (price is rounded to 2 decimals at line  *)
(* 151), ratings in hundredths of a star, bathrooms in halves, the noise   *)
(* factor of line 150 in percent, city and room-type multipliers in        *)
(* tenths.  A quantile is held as a numerator over 100 (QuantileNum).      *)
(*                                                                         *)
(* A cell of a boolean column is a string: "True"/"False" for a Python     *)
(* bool (as generated, lines 124-132), "1"/"0" once clean_data has cast    *)
(* the column with astype(int) (line 201).                                 *)
(*                                                                         *)
(* A listing keeps the columns the analyses below read.  The 18 draws the  *)
(* generator makes for one listing (lines 90-154) are one compound draw;   *)
(* the stream of the global numpy generator is `tape`, fixed but unknown,  *)
(* and `rng` is the generator's position in it.                            *)
(***************************************************************************)
EXTENDS Integers, Sequences, FiniteSets, TLC

VARIABLES
    df,             \* self.df: [isNone, rows]
    db_connection,  \* self.db_connection: [isNone, hasTable, listings]
    insights,       \* self.insights: [has, city_prices]
    rng,            \* position of the global numpy generator in its stream
    tape,           \* the stream of the global numpy generator (compound draws)
    fs,             \* what pd.read_csv may find under a path: its outcomes
    last,           \* the last call: [op, arg, n, raised, exc]
    ret,            \* what the last call returned (the part the analyses read)
    preDf,          \* history: self.df as clean_data last found it, since the load
    cleaned,        \* history: clean_data has run since the last load_data
    preCleaned,     \* history: `cleaned` as the last clean_data call found it
    repeated,       \* history: the generator was called again for an n it had
                    \* served, with the global generator away from its seed
    generated       \* history: the (n, rows) pairs the generator has returned

vars == <<df, db_connection, insights, rng, tape, fs, last, ret, preDf, cleaned,
          preCleaned, repeated, generated>>

(***************************************************************************)
(* Bounds of the model.                                                    *)
(***************************************************************************)
\* n_listings of load_data's call of the generator; the source's default is 1000
DefaultListings == 3
\* largest n_listings a direct call of _generate_sample_data is given
MaxListings == 3
\* period of the stand-in for the generator's stream
TapeLen == 2
\* most rows of an external CSV file built from CsvRowPool
MaxCsvRows == 3
\* sqlite3.connect calls followed in one run
MaxStores == 2

(***************************************************************************)
(* Program constants.                                                      *)
(***************************************************************************)
SEED == 42
NaN == -1
PriceFloor == 30
TopCitiesLimit == 10

Max(a, b) == IF a >= b THEN a ELSE b
Min(a, b) == IF a <= b THEN a ELSE b

\* round(num / den) to the nearest integer, den > 0 (halves away from zero)
RoundDiv(num, den) ==
    IF num >= 0 THEN (2 * num + den) \div (2 * den)
    ELSE -((2 * (-num) + den) \div (2 * den))

RECURSIVE SumSeq(_)
SumSeq(s) == IF s = <<>> THEN 0 ELSE Head(s) + SumSeq(Tail(s))

Column(rows, col) == [i \in 1..Len(rows) |-> rows[i][col]]
Values(rows, col) == {rows[i][col] : i \in 1..Len(rows)}

(***************************************************************************)
(* _generate_sample_data                                                   *)
(***************************************************************************)
cities == <<"New York", "San Francisco", "Los Angeles", "Chicago",
            "Boston", "Seattle", "Austin", "Miami">>

room_types == <<"Entire home/apt", "Private room", "Shared room", "Hotel room">>

\* city_multipliers.get(city, 1.0), in tenths
city_multipliers(city) ==
    CASE city = "New York" -> 15
      [] city = "San Francisco" -> 14
      [] city = "Los Angeles" -> 12
      [] city = "Boston" -> 13
      [] city = "Seattle" -> 12
      [] city = "Chicago" -> 10
      [] city = "Austin" -> 9
      [] city = "Miami" -> 11
      [] OTHER -> 10

\* the factor of the room type, in tenths
room_multiplier(room_type) ==
    CASE room_type = "Entire home/apt" -> 15
      [] room_type = "Private room" -> 7
      [] room_type = "Shared room" -> 4
      [] room_type = "Hotel room" -> 12
      [] OTHER -> 10

\* a deliberately wrong variant: the room type adjustment is left out
base_price_city_only(city, room_type) == city_multipliers(city) * 1000

\* base_price in cents: 100 * (cm / 10) * (rm / 10) dollars
base_price(city, room_type) ==
    city_multipliers(city) * room_multiplier(room_type) * 100

PyBool(b) == IF b THEN "True" ELSE "False"

\* what lines 138-147 add to the base price, in cents
additive_terms(d) ==
    d.bedrooms * 3000
    + d.bathrooms2 * 1000
    + d.num_amenities * 200
    + (IF d.has_wifi THEN 2000 ELSE 0)
    + (IF d.has_kitchen THEN 3000 ELSE 0)
    + (IF d.has_parking THEN 2500 ELSE 0)
    + (IF d.has_pool THEN 4000 ELSE 0)
    + (IF d.host_is_superhost THEN 3000 ELSE 0)
    + (IF d.number_of_reviews > 0 /\ d.rating # 0
       THEN (d.rating - 400) * 30 ELSE 0)

\* price before the noise of line 150, in cents
raw_price(d) == base_price(d.city, d.room_type) + additive_terms(d)

\* a deliberately wrong variant: the noise taken as a signed deviation and the floor left out
final_price_deviation(d) == RoundDiv(raw_price(d) * (d.noise - 100), 100)

\* the price of the listing in cents: noise, rounding, floor at 30
final_price(d) == Max(PriceFloor * 100, RoundDiv(raw_price(d) * d.noise, 100))

\* review_scores_rating: drawn only when number_of_reviews > 0, else None
rating_of(d) == IF d.number_of_reviews > 0 THEN d.rating ELSE NaN

\* the dict appended for listing i
Listing(i, d) ==
    [listing_id |-> i,
     city |-> d.city,
     room_type |-> d.room_type,
     bedrooms |-> d.bedrooms,
     price |-> final_price(d),
     number_of_reviews |-> d.number_of_reviews,
     review_scores_rating |-> rating_of(d),
     host_is_superhost |-> PyBool(d.host_is_superhost),
     instant_bookable |-> PyBool(d.instant_bookable),
     has_wifi |-> PyBool(d.has_wifi),
     has_kitchen |-> PyBool(d.has_kitchen),
     has_parking |-> PyBool(d.has_parking),
     has_pool |-> PyBool(d.has_pool)]

\* the values one listing draws, in the order of lines 90-150
Draw(city, room_type, bedrooms, bathrooms2, reviews, rating, amenities, wifi, kitchen, parking, pool, superhost, instant, noise) ==
    [city |-> city, room_type |-> room_type, bedrooms |-> bedrooms,
     bathrooms2 |-> bathrooms2, number_of_reviews |-> reviews, rating |-> rating,
     num_amenities |-> amenities, has_wifi |-> wifi, has_kitchen |-> kitchen,
     has_parking |-> parking, has_pool |-> pool, host_is_superhost |-> superhost,
     instant_bookable |-> instant, noise |-> noise]

\* compound draws the stream may hold: the cheapest and the dearest listing the
\* ranges of lines 90-150 allow, one without reviews, and two in between
DrawRows ==
    { Draw("Austin", "Shared room", 1, 2, 3, 350, 5,
           FALSE, FALSE, FALSE, FALSE, FALSE, FALSE, 85),
      Draw("Austin", "Shared room", 1, 2, 0, 350, 5,
           FALSE, FALSE, FALSE, FALSE, FALSE, TRUE, 85),
      Draw("New York", "Entire home/apt", 5, 6, 20, 500, 24,
           TRUE, TRUE, TRUE, TRUE, TRUE, TRUE, 115),
      Draw("Chicago", "Private room", 2, 3, 18, 400, 10,
           TRUE, TRUE, FALSE, FALSE, FALSE, TRUE, 100),
      Draw("New York", "Private room", 3, 4, 25, 450, 12,
           TRUE, FALSE, TRUE, FALSE, TRUE, FALSE, 100) }

\* one plain listing of a city and a room type: no reviews, no amenity flag,
\* no noise, so that its price shows its base price
BaseDraw(city, room_type, bedrooms) ==
    Draw(city, room_type, bedrooms, 2, 0, 350, 5,
         FALSE, FALSE, FALSE, FALSE, FALSE, FALSE, 100)

\* np.random.seed(seed): the position the stream starts from
Seeded(seed) == seed % TapeLen

\* the draw the generator at position s yields for the k-th listing (k from 0)
DrawAt(s, k) == tape[((s + k) % TapeLen) + 1]

\* a deliberately wrong variant: the generator is not reseeded, the stream goes on from where it is
sample_rows_unseeded(n) == [i \in 1..n |-> Listing(i, DrawAt(rng, i - 1))]

\* the rows of _generate_sample_data(n)
sample_rows(n) == [i \in 1..n |-> Listing(i, DrawAt(Seeded(SEED), i - 1))]

\* the generator's position after _generate_sample_data(n)
rng_after_sample(n) == (Seeded(SEED) + n) % TapeLen

(***************************************************************************)
(* pandas: median, quantile                                                *)
(***************************************************************************)
\* the k-th smallest element of xs, k from 0
Kth(xs, k) ==
    CHOOSE v \in {xs[i] : i \in 1..Len(xs)} :
        /\ Cardinality({i \in 1..Len(xs) : xs[i] < v}) <= k
        /\ k < Cardinality({i \in 1..Len(xs) : xs[i] <= v})

\* twice Series.median() of the integers xs, Len(xs) > 0
Median2(xs) ==
    LET n == Len(xs)
    IN  IF n % 2 = 1 THEN 2 * Kth(xs, n \div 2)
        ELSE Kth(xs, n \div 2 - 1) + Kth(xs, n \div 2)

\* Series.median() of a rating column: NaN cells are skipped, NaN when none is left
rating_median(rows) ==
    LET present == SelectSeq(Column(rows, "review_scores_rating"),
                             LAMBDA x : x # NaN)
    IN  IF present = <<>> THEN NaN ELSE Median2(present) \div 2

\* 100 * Series.quantile(pct / 100) of the integers xs, Len(xs) > 0: linear
\* interpolation between the order statistics around (n - 1) * pct / 100
QuantileNum(xs, pct) ==
    LET h == (Len(xs) - 1) * pct
        i == h \div 100
        g == h % 100
    IN  IF g = 0 THEN 100 * Kth(xs, i)
        ELSE 100 * Kth(xs, i) + g * (Kth(xs, i + 1) - Kth(xs, i))

(***************************************************************************)
(* clean_data                                                              *)
(***************************************************************************)
bool_columns == <<"host_is_superhost", "instant_bookable", "has_wifi",
                  "has_kitchen", "has_parking", "has_pool">>

\* a deliberately wrong variant: the column is cast with astype(bool)
astype_bool(v) ==
    CASE v = "1" -> "True"
      [] v = "0" -> "False"
      [] OTHER -> v

\* Series.astype(int) of one cell of a boolean column
astype_int(v) ==
    CASE v = "True" -> "1"
      [] v = "False" -> "0"
      [] OTHER -> v

\* fillna(median, inplace=True) on review_scores_rating
fillna_rating(rows) ==
    LET m == rating_median(rows)
    IN  [i \in 1..Len(rows) |->
            IF rows[i].review_scores_rating = NaN
            THEN [rows[i] EXCEPT !.review_scores_rating = m]
            ELSE rows[i]]

\* a deliberately wrong variant: the band is open, a row at q01 or q99 is dropped
in_band_strict(p, q01, q99) == 100 * p > q01 /\ 100 * p < q99

\* (price >= q01) & (price <= q99), the quantiles held as numerators over 100
in_band(p, q01, q99) == 100 * p >= q01 /\ 100 * p <= q99

\* the rows kept by the outlier filter; the quantiles are those of rows itself
remove_outliers(rows) ==
    IF rows = <<>> THEN <<>>
    ELSE LET prices == Column(rows, "price")
             q01 == QuantileNum(prices, 1)
             q99 == QuantileNum(prices, 99)
         IN  SelectSeq(rows, LAMBDA r : in_band(r.price, q01, q99))

\* the loop over bool_columns
convert_bool_columns(rows) ==
    [i \in 1..Len(rows) |->
        [c \in DOMAIN rows[i] |->
            IF \E j \in 1..Len(bool_columns) : bool_columns[j] = c
            THEN astype_int(rows[i][c]) ELSE rows[i][c]]]

\* self.df after clean_data
cleaned_rows(rows) == convert_bool_columns(remove_outliers(fillna_rating(rows)))

(***************************************************************************)
(* Group-by aggregations (pandas groupby / SQL GROUP BY)                   *)
(***************************************************************************)
GroupRows(rows, col, k) == SelectSeq(rows, LAMBDA r : r[col] = k)

\* ROUND(AVG(price), 2) of a non-empty group, in cents
AvgPrice(rows) == RoundDiv(SumSeq(Column(rows, "price")), Len(rows))

\* one row of groupby(col)['price'].agg(['mean', 'median', 'count']); the mean is
\* the exact quotient sum / count, the median is held doubled
AggRow(rows, col, k) ==
    LET g == GroupRows(rows, col, k)
    IN  [key |-> k, sum |-> SumSeq(Column(g, "price")), count |-> Len(g),
         median2 |-> Median2(Column(g, "price"))]

\* sort_values('mean', ascending=False): the order among equal means is the
\* sorting algorithm's; the model fixes one
RECURSIVE SortByMeanDesc(_)
SortByMeanDesc(S) ==
    IF S = {} THEN <<>>
    ELSE LET m == CHOOSE x \in S :
                    \A y \in S : x.sum * y.count >= y.sum * x.count
         IN  <<m>> \o SortByMeanDesc(S \ {m})

\* df.groupby(col)['price'].agg([...]).sort_values('mean', ascending=False)
group_prices(rows, col) ==
    SortByMeanDesc({AggRow(rows, col, k) : k \in Values(rows, col)})

\* ORDER BY avg_price DESC, ties in the engine's order (the model fixes one)
RECURSIVE SortByAvgDesc(_)
SortByAvgDesc(S) ==
    IF S = {} THEN <<>>
    ELSE LET m == CHOOSE x \in S : \A y \in S : x.avg_price >= y.avg_price
         IN  <<m>> \o SortByAvgDesc(S \ {m})

\* the integers of S in ascending order
RECURSIVE Ascending(_)
Ascending(S) ==
    IF S = {} THEN <<>>
    ELSE LET m == CHOOSE x \in S : \A y \in S : x <= y
         IN  <<m>> \o Ascending(S \ {m})

\* a deliberately wrong variant: the limit is taken exclusive
limit_exclusive(s, n) == SubSeq(s, 1, Min(n, Len(s)) - 1)

\* the first n elements of s (LIMIT n)
Limit(s, n) == SubSeq(s, 1, Min(n, Len(s)))

(***************************************************************************)
(* create_database and the queries of perform_sql_analysis                 *)
(***************************************************************************)
\* DataFrame.to_sql: a bool cell is stored as the integer 1 or 0
to_sql(rows) == convert_bool_columns(rows)

\* query1: city, ROUND(AVG(price), 2), COUNT(*) ... ORDER BY avg_price DESC LIMIT 10
query1(listings) ==
    Limit(SortByAvgDesc({[city |-> k,
                          avg_price |-> AvgPrice(GroupRows(listings, "city", k)),
                          num_listings |-> Len(GroupRows(listings, "city", k))] :
                         k \in Values(listings, "city")}),
          TopCitiesLimit)

\* one SELECT ... GROUP BY flag of query2: a row per value of the flag in the table
amenity_select(listings, flag, with, without) ==
    LET grp(v) == GroupRows(listings, flag, v)
        row(v) == [flag |-> flag,
                   status |-> IF v = "1" THEN with ELSE without,
                   avg_price |-> AvgPrice(grp(v))]
    IN  (IF grp("0") # <<>> THEN <<row("0")>> ELSE <<>>)
        \o (IF grp("1") # <<>> THEN <<row("1")>> ELSE <<>>)

\* query2: the UNION ALL of the has_wifi, has_kitchen and has_pool selects
query2(listings) ==
    amenity_select(listings, "has_wifi", "With WiFi", "No WiFi")
    \o amenity_select(listings, "has_kitchen", "With Kitchen", "No Kitchen")
    \o amenity_select(listings, "has_pool", "With Pool", "No Pool")

\* query3: host type, ROUND(AVG(price), 2), COUNT(*) GROUP BY host_is_superhost
query3(listings) ==
    LET grp(v) == GroupRows(listings, "host_is_superhost", v)
        row(v) == [host_type |-> IF v = "1" THEN "Superhost" ELSE "Regular Host",
                   avg_price |-> AvgPrice(grp(v)), num_listings |-> Len(grp(v))]
    IN  (IF grp("0") # <<>> THEN <<row("0")>> ELSE <<>>)
        \o (IF grp("1") # <<>> THEN <<row("1")>> ELSE <<>>)

\* query4: bedrooms, ROUND(AVG(price), 2), COUNT(*) WHERE bedrooms <= 5 ORDER BY bedrooms
query4(listings) ==
    LET small == SelectSeq(listings, LAMBDA r : r.bedrooms <= 5)
        keys == Ascending(Values(small, "bedrooms"))
    IN  [i \in 1..Len(keys) |->
            [bedrooms |-> keys[i],
             avg_price |-> AvgPrice(GroupRows(small, "bedrooms", keys[i])),
             num_listings |-> Len(GroupRows(small, "bedrooms", keys[i]))]]

(***************************************************************************)
(* What pd.read_csv may find                                               *)
(***************************************************************************)
\* one line of an external file, parsed
CsvRow(city, room_type, bedrooms, price, reviews, rating, superhost, instant, wifi, kitchen, parking, pool) ==
    [listing_id |-> 0, city |-> city, room_type |-> room_type,
     bedrooms |-> bedrooms, price |-> price, number_of_reviews |-> reviews,
     review_scores_rating |-> rating,
     host_is_superhost |-> PyBool(superhost), instant_bookable |-> PyBool(instant),
     has_wifi |-> PyBool(wifi), has_kitchen |-> PyBool(kitchen),
     has_parking |-> PyBool(parking), has_pool |-> PyBool(pool)]

\* rows an external file may hold (the column set of the generator)
CsvRowPool ==
    { CsvRow("Lisbon", "Private room", 1, 5000, 0, NaN,
             FALSE, FALSE, TRUE, TRUE, FALSE, FALSE),
      CsvRow("Lisbon", "Entire home/apt", 2, 12000, 12, 400,
             TRUE, TRUE, TRUE, FALSE, TRUE, FALSE),
      CsvRow("Porto", "Shared room", 7, 20000, 30, 500,
             TRUE, FALSE, FALSE, TRUE, TRUE, TRUE) }

Numbered(rows) == [i \in 1..Len(rows) |-> [rows[i] EXCEPT !.listing_id = i]]

\* the files of at most n rows over the pool, the header-only file included
CsvFilesUpTo(n) ==
    UNION {{Numbered(f) : f \in [1..k -> CsvRowPool]} : k \in 0..n}

\* a file with one listing in each of eleven cities, all at one price
ManyCities ==
    LET names == <<"Lisbon", "Porto", "Madrid", "Paris", "Rome", "Berlin",
                   "Vienna", "Prague", "Dublin", "Oslo", "Athens">>
    IN  [i \in 1..Len(names) |->
            [CsvRow(names[i], "Private room", 1 + (i % 2), 9000, 4, 450,
                    i % 2 = 0, TRUE, TRUE, i % 3 = 0, i % 2 = 1, FALSE)
             EXCEPT !.listing_id = i]]

Parsed(rows) == [exc |-> "none", rows |-> rows]
Failed(exc) == [exc |-> exc, rows |-> <<>>]

\* the failures of pd.read_csv: no such file, a malformed file, an empty file,
\* bytes that do not decode
ReadFailures ==
    {Failed("FileNotFoundError"), Failed("ParserError"),
     Failed("EmptyDataError"), Failed("UnicodeDecodeError")}

\* the outcomes of pd.read_csv in the runs of the whole pipeline
PipelineFiles ==
    ReadFailures \cup {Parsed(ManyCities)} \cup {Parsed(f) : f \in CsvFilesUpTo(1)}

\* a file of five listings at five prices
FivePrices ==
    [i \in 1..5 |->
        [CsvRow("Lisbon", "Private room", i, 4000 + 1000 * i, i - 1,
                IF i = 1 THEN NaN ELSE 300 + 40 * i,
                i % 2 = 0, FALSE, TRUE, i > 2, i % 2 = 1, FALSE)
         EXCEPT !.listing_id = i]]

\* the outcomes of pd.read_csv in the runs of load_data and clean_data alone
CleanerFiles ==
    ReadFailures \cup {Parsed(ManyCities), Parsed(FivePrices)}
    \cup {Parsed(f) : f \in CsvFilesUpTo(MaxCsvRows)}

(***************************************************************************)
(* State                                                                   *)
(***************************************************************************)
NoneDf == [isNone |-> TRUE, rows |-> <<>>]
Frame(rows) == [isNone |-> FALSE, rows |-> rows]

\* self.db_connection = None; store numbers the sqlite3.connect calls so far
NoConnection == [isNone |-> TRUE, hasTable |-> FALSE, listings |-> <<>>, store |-> 0]

NoInsights == [has |-> FALSE, city_prices |-> <<>>, room_prices |-> <<>>]

NoReturn ==
    [rows |-> <<>>, city_prices |-> <<>>, room_prices |-> <<>>,
     expensive_cities |-> <<>>, amenity_impact |-> <<>>,
     superhost_premium |-> <<>>, bedroom_analysis |-> <<>>]

Call(op, arg, n, raised) ==
    [op |-> op, arg |-> arg, n |-> n, raised |-> raised, exc |-> "none"]

\* the generator's returns so far, one more recorded
Logged(n, rows) == generated \cup {[n |-> n, rows |-> rows]}

\* a call of the generator for n repeats an earlier one, away from the seed
Repeats(n) == rng # Seeded(SEED) /\ \E g \in generated : g.n = n

InitCommon ==
    /\ df = NoneDf
    /\ db_connection = NoConnection
    /\ insights = NoInsights
    /\ rng = 0
    /\ last = Call("__init__", "", 0, FALSE)
    /\ ret = NoReturn
    /\ preDf = NoneDf
    /\ cleaned = FALSE
    /\ preCleaned = FALSE
    /\ repeated = FALSE
    /\ generated = {}

\* the stream of the pipeline runs: one fixed stream
PipelineTape ==
    [i \in 1..TapeLen |->
        CASE i % 3 = 1 -> Draw("New York", "Entire home/apt", 5, 6, 20, 500, 24,
                               TRUE, TRUE, TRUE, TRUE, TRUE, TRUE, 115)
          [] i % 3 = 2 -> Draw("Austin", "Shared room", 1, 2, 0, 350, 5,
                               FALSE, FALSE, FALSE, FALSE, FALSE, TRUE, 85)
          [] OTHER -> Draw("Chicago", "Private room", 2, 3, 18, 400, 10,
                           TRUE, TRUE, FALSE, FALSE, FALSE, TRUE, 100)]

Init ==
    /\ InitCommon
    /\ tape = PipelineTape
    /\ fs = PipelineFiles

(***************************************************************************)
(* load_data, _generate_sample_data, clean_data                            *)
(***************************************************************************)
\* a deliberately wrong variant: the handler catches a missing file only
except_FileNotFoundError(exc) == exc = "FileNotFoundError"

\* `except Exception`: every failure of pd.read_csv is an Exception
except_Exception(exc) ==
    exc \in {"FileNotFoundError", "ParserError", "EmptyDataError",
             "UnicodeDecodeError"}

\* load_data(data_source), pd.read_csv ending as `file` says
load_data(data_source, file) ==
    LET failed == data_source # "sample" /\ file.exc # "none"
        raises == failed /\ ~except_Exception(file.exc)
        generates == data_source = "sample" \/ (failed /\ ~raises)
        rows == IF generates THEN sample_rows(DefaultListings) ELSE file.rows
    IN  /\ last' = [Call("load_data", data_source, 0, raises) EXCEPT
                        !.exc = IF data_source = "sample" THEN "none" ELSE file.exc]
        /\ df' = IF raises THEN df ELSE Frame(rows)
        /\ ret' = IF raises THEN NoReturn ELSE [NoReturn EXCEPT !.rows = rows]
        /\ rng' = IF generates THEN rng_after_sample(DefaultListings) ELSE rng
        /\ generated' = IF generates THEN Logged(DefaultListings, rows) ELSE generated
        /\ cleaned' = IF raises THEN cleaned ELSE FALSE
        /\ preDf' = IF raises THEN preDf ELSE NoneDf
        /\ preCleaned' = IF raises THEN preCleaned ELSE FALSE
        /\ repeated' = (repeated \/ (generates /\ Repeats(DefaultListings)))
        /\ UNCHANGED <<db_connection, insights, tape, fs>>

\* a direct call of _generate_sample_data(n)
generate_sample_data(n) ==
    /\ last' = Call("_generate_sample_data", "", n, FALSE)
    /\ ret' = [NoReturn EXCEPT !.rows = sample_rows(n)]
    /\ rng' = rng_after_sample(n)
    /\ generated' = Logged(n, sample_rows(n))
    /\ repeated' = (repeated \/ Repeats(n))
    /\ UNCHANGED <<df, db_connection, insights, tape, fs, preDf, cleaned, preCleaned>>

\* any other use of the global numpy generator between two calls
other_draw ==
    /\ rng' = (rng + 1) % TapeLen
    /\ last' = Call("np.random", "", 0, FALSE)
    /\ ret' = NoReturn
    /\ UNCHANGED <<df, db_connection, insights, tape, fs, preDf, cleaned, preCleaned,
                   repeated, generated>>

\* clean_data(); len(None) raises when no data is loaded
clean_data ==
    /\ last' = Call("clean_data", "", 0, df.isNone)
    /\ IF df.isNone
       THEN /\ ret' = NoReturn
            /\ UNCHANGED <<df, preDf, cleaned, preCleaned>>
       ELSE /\ df' = Frame(cleaned_rows(df.rows))
            /\ ret' = [NoReturn EXCEPT !.rows = cleaned_rows(df.rows)]
            /\ preDf' = df
            /\ preCleaned' = cleaned
            /\ cleaned' = TRUE
    /\ UNCHANGED <<db_connection, insights, rng, tape, fs, repeated, generated>>

(***************************************************************************)
(* create_database, perform_exploratory_analysis, perform_sql_analysis     *)
(***************************************************************************)
\* self.db_connection after create_database: the connection is assigned before
\* to_sql runs, so a call without data leaves a connection without the table
\* every sqlite3.connect(':memory:') opens a new, empty store
connected ==
    IF df.isNone
    THEN [isNone |-> FALSE, hasTable |-> FALSE, listings |-> <<>>,
          store |-> db_connection.store + 1]
    ELSE [isNone |-> FALSE, hasTable |-> TRUE, listings |-> to_sql(df.rows),
          store |-> db_connection.store + 1]

create_database ==
    /\ db_connection.store < MaxStores
    /\ last' = Call("create_database", "", 0, df.isNone)
    /\ db_connection' = connected
    /\ ret' = NoReturn
    /\ UNCHANGED <<df, insights, rng, tape, fs, preDf, cleaned, preCleaned,
                   repeated, generated>>

\* a deliberately wrong variant: the sort by mean is applied to self.df in place
eda_frame_sorted ==
    IF df.isNone \/ df.rows = <<>> THEN df
    ELSE Frame(Tail(df.rows) \o <<Head(df.rows)>>)

\* the frame perform_exploratory_analysis leaves in self.df
eda_frame == df

perform_exploratory_analysis ==
    /\ last' = Call("perform_exploratory_analysis", "", 0, df.isNone)
    /\ IF df.isNone
       THEN /\ ret' = NoReturn
            /\ UNCHANGED <<df, insights>>
       ELSE /\ insights' = [has |-> TRUE,
                            city_prices |-> group_prices(df.rows, "city"),
                            room_prices |-> group_prices(df.rows, "room_type")]
            /\ ret' = [NoReturn EXCEPT
                          !.city_prices = group_prices(df.rows, "city"),
                          !.room_prices = group_prices(df.rows, "room_type")]
            /\ df' = eda_frame
    /\ UNCHANGED <<db_connection, rng, tape, fs, preDf, cleaned, preCleaned,
                   repeated, generated>>

\* perform_sql_analysis(): create_database() only when there is no connection;
\* the queries raise when the connection has no listings table
perform_sql_analysis ==
    LET conn == IF db_connection.isNone THEN connected ELSE db_connection
    IN  /\ last' = Call("perform_sql_analysis", "", 0, ~conn.hasTable)
        /\ db_connection' = conn
        /\ ret' = IF ~conn.hasTable THEN NoReturn
                  ELSE [NoReturn EXCEPT
                           !.expensive_cities = query1(conn.listings),
                           !.amenity_impact = query2(conn.listings),
                           !.superhost_premium = query3(conn.listings),
                           !.bedroom_analysis = query4(conn.listings)]
        /\ UNCHANGED <<df, insights, rng, tape, fs, preDf, cleaned, preCleaned,
                   repeated, generated>>

(***************************************************************************)
(* correlation_analysis, build_price_prediction_model                      *)
(***************************************************************************)
\* the calls below read self.df and assign no field; what they print and the
\* matrix, the model and the image they produce are not held in the state
ReadOnly(op, raised) ==
    /\ last' = Call(op, "", 0, raised)
    /\ ret' = NoReturn
    /\ UNCHANGED <<df, db_connection, insights, rng, tape, fs, preDf, cleaned,
                   preCleaned, repeated, generated>>

\* self.df[numeric_cols] raises on None; corr() of any frame returns
correlation_analysis == ReadOnly("correlation_analysis", df.isNone)

\* train_test_split(test_size=0.2): ceil(0.2 n) test rows, the rest train rows
n_train(n) == n - ((2 * n + 9) \div 10)

\* a NaN rating among the features: whether fit() takes it depends on the
\* scikit-learn release, so either outcome is possible
has_nan_rating(rows) == \E i \in 1..Len(rows) : rows[i].review_scores_rating = NaN

build_price_prediction_model ==
    \E nan_rejected \in BOOLEAN :
        ReadOnly("build_price_prediction_model",
                 \/ df.isNone
                 \/ n_train(Len(df.rows)) = 0
                 \/ (nan_rejected /\ has_nan_rating(df.rows)))

(***************************************************************************)
(* create_visualizations, generate_report                                  *)
(***************************************************************************)
\* a deliberately wrong variant: an average of no rows raises (statistics.mean) instead of being NaN
mean_raises_on_empty(rows) == rows = <<>>

\* Series.mean() of the prices of `rows` raises: never, an empty selection gives NaN
mean_raises(rows) == FALSE

\* ax.bar(labels, values): the two are broadcast against each other
bar_raises(n_labels, n_values) ==
    ~(n_labels = n_values \/ n_labels = 1 \/ n_values = 1)

\* the rows whose flag compares equal to 1 (True == 1 in pandas), or to 0
flag_is(rows, flag, one) ==
    SelectSeq(rows, LAMBDA r : IF one THEN r[flag] \in {"1", "True"}
                                        ELSE r[flag] \in {"0", "False"})

amenities == <<"has_wifi", "has_kitchen", "has_parking", "has_pool">>

\* panels 1-4 plot the price column and its group means: plotting an empty
\* frame raises
panels_raise(rows) == rows = <<>>

\* panel 5: one bar per label of superhost_labels, one value per superhost group
superhost_panel_raises(rows) ==
    bar_raises(2, Cardinality(Values(rows, "host_is_superhost")))

\* panel 6: the with/without means of the four amenities
amenity_panel_raises(rows) ==
    \E i \in 1..Len(amenities) :
        \/ mean_raises(flag_is(rows, amenities[i], TRUE))
        \/ mean_raises(flag_is(rows, amenities[i], FALSE))

create_visualizations ==
    ReadOnly("create_visualizations",
             \/ df.isNone
             \/ panels_raise(df.rows)
             \/ superhost_panel_raises(df.rows)
             \/ amenity_panel_raises(df.rows))

\* generate_report: idxmax of the city means raises on an empty frame; the three
\* differences of means are NaN when a group is missing
report_raises(rows) ==
    \/ rows = <<>>
    \/ mean_raises(GroupRows(rows, "room_type", "Entire home/apt"))
    \/ mean_raises(GroupRows(rows, "room_type", "Private room"))
    \/ mean_raises(flag_is(rows, "host_is_superhost", TRUE))
    \/ mean_raises(flag_is(rows, "host_is_superhost", FALSE))

generate_report == ReadOnly("generate_report", df.isNone \/ report_raises(df.rows))

(***************************************************************************)
(* Specifications                                                          *)
(***************************************************************************)
DataSources == {"sample", "listings.csv"}

\* pd.read_csv is called for a path only
LoadData ==
    \E data_source \in DataSources :
        \E file \in IF data_source = "sample" THEN {Parsed(<<>>)} ELSE fs :
            load_data(data_source, file)

GenerateSampleData == \E n \in 0..MaxListings : generate_sample_data(n)

\* the whole pipeline, its calls in any order
Next ==
    \/ LoadData
    \/ clean_data
    \/ create_database
    \/ perform_exploratory_analysis
    \/ perform_sql_analysis
    \/ correlation_analysis
    \/ build_price_prediction_model
    \/ create_visualizations
    \/ generate_report

Spec == Init /\ [][Next]_vars

\* the generator under every stream: load_data('sample'), direct calls, other
\* draws from the global generator in between, and the cleaner
InitGen ==
    /\ InitCommon
    /\ tape \in [1..TapeLen -> DrawRows]
    /\ fs = ReadFailures

NextGen ==
    \/ LoadData
    \/ GenerateSampleData
    \/ other_draw
    \/ clean_data

SpecGen == InitGen /\ [][NextGen]_vars

\* the generator over a stream of one (city, room type) pair, for every pair
\* of the tables of lines 73-77
InitBase ==
    /\ InitCommon
    /\ fs = ReadFailures
    /\ \E c \in 1..Len(cities), r \in 1..Len(room_types) :
          tape = [i \in 1..TapeLen |-> BaseDraw(cities[c], room_types[r], i)]

NextBase ==
    \/ LoadData
    \/ GenerateSampleData

SpecBase == InitBase /\ [][NextBase]_vars

\* load_data and clean_data over every small external file
InitClean ==
    /\ InitCommon
    /\ tape = PipelineTape
    /\ fs = CleanerFiles

NextClean ==
    \/ LoadData
    \/ clean_data

SpecClean == InitClean /\ [][NextClean]_vars

(***************************************************************************)
(* Properties                                                              *)
(***************************************************************************)
Ids(rows) == Values(rows, "listing_id")
RowOf(rows, id) == rows[CHOOSE i \in 1..Len(rows) : rows[i].listing_id = id]

\* C1: load_data never raises, whatever the data source and however reading the
\* file ends; when the read of an external path fails, self.df and the value
\* returned are the dataset load_data('sample') gives.
C1_LoadNeverRaises ==
    last.op = "load_data" =>
        /\ ~last.raised
        /\ ~df.isNone
        /\ ret.rows = df.rows
        /\ (last.arg = "sample" \/ last.exc # "none") =>
                /\ df.rows = [i \in 1..DefaultListings |->
                                Listing(i, DrawAt(Seeded(SEED), i - 1))]
                /\ [n |-> DefaultListings, rows |-> df.rows] \in generated

C1_Witness ==
    /\ last.op = "load_data"
    /\ last.arg = "listings.csv"
    /\ last.exc = "ParserError"
    /\ ~last.raised
    /\ Len(df.rows) = DefaultListings

\* C2: clean_data keeps a row if and only if its price lies in [q01, q99], the
\* 1st and 99th percentiles of price of the dataset as the call found it; the
\* rows at q01 and at q99 are kept.
C2_KeepsExactlyBand ==
    (last.op = "clean_data" /\ ~last.raised /\ preDf.rows # <<>>) =>
        LET before == preDf.rows
            q01 == QuantileNum(Column(before, "price"), 1)
            q99 == QuantileNum(Column(before, "price"), 99)
        IN  /\ \A i \in 1..Len(df.rows) :
                100 * df.rows[i].price >= q01 /\ 100 * df.rows[i].price <= q99
            /\ \A i \in 1..Len(before) :
                (100 * before[i].price >= q01 /\ 100 * before[i].price <= q99)
                    <=> before[i].listing_id \in Ids(df.rows)
            /\ \A i \in 1..Len(df.rows) :
                df.rows[i].price = RowOf(before, df.rows[i].listing_id).price

\* a row at the 1st percentile is kept while another row is dropped
C2_Witness ==
    /\ last.op = "clean_data"
    /\ ~last.raised
    /\ Len(df.rows) < Len(preDf.rows)
    /\ \E i \in 1..Len(df.rows) :
        100 * df.rows[i].price = QuantileNum(Column(preDf.rows, "price"), 1)

\* C3 as claimed: a clean_data call on a dataset that clean_data has already
\* cleaned removes no row and leaves the boolean columns as they are.
C3_Idempotent ==
    (last.op = "clean_data" /\ ~last.raised /\ preCleaned) => df.rows = preDf.rows

\* C3 as amended: a clean_data call on an already cleaned dataset leaves every
\* row it keeps as it was, the six boolean columns at 0/1, and keeps exactly the
\* rows inside the percentile band of the cleaned dataset, so it drops rows
\* again whenever that band leaves some out.
C3_SecondPassTrimsAgain ==
    (last.op = "clean_data" /\ ~last.raised /\ preCleaned) =>
        LET before == preDf.rows
            q01 == QuantileNum(Column(before, "price"), 1)
            q99 == QuantileNum(Column(before, "price"), 99)
            inside(r) == 100 * r.price >= q01 /\ 100 * r.price <= q99
        IN  /\ \A i \in 1..Len(df.rows) :
                /\ df.rows[i] = RowOf(before, df.rows[i].listing_id)
                /\ \A j \in 1..Len(bool_columns) :
                    df.rows[i][bool_columns[j]] \in {"0", "1"}
            /\ Ids(df.rows) = {before[i].listing_id : i \in
                                {k \in 1..Len(before) : inside(before[k])}}
            /\ (df.rows = before <=> \A i \in 1..Len(before) : inside(before[i]))

\* the second pass drops a row
C3_Witness ==
    /\ last.op = "clean_data"
    /\ ~last.raised
    /\ preCleaned
    /\ df.rows # <<>>
    /\ Len(df.rows) < Len(preDf.rows)

\* C4: every listing the generator returns for n >= 1 has price >= 30, and every
\* listing of a generated dataset that survives clean_data has price > 0.
C4_PriceFloor ==
    /\ \A g \in generated :
        \A i \in 1..Len(g.rows) : g.rows[i].price >= PriceFloor * 100
    /\ \A i \in 1..Len(df.rows) :
        /\ df.rows[i].price > 0
        /\ ~cleaned => df.rows[i].price >= PriceFloor * 100

C4_Witness ==
    /\ cleaned
    /\ df.rows # <<>>
    /\ \E g \in generated : g.n >= 1 /\ g.rows = preDf.rows

\* C5: two calls of the generator with the same n return the same dataset,
\* whatever was drawn from the global generator before each.
C5_Deterministic ==
    /\ \A g, h \in generated : g.n = h.n => g.rows = h.rows
    /\ last.op = "_generate_sample_data" =>
            \A g \in generated : g.n = last.n => g.rows = ret.rows

\* a repeated call for some n >= 1, made with the generator away from its seed
C5_Witness ==
    /\ repeated
    /\ last.op = "_generate_sample_data"
    /\ last.n >= 1
    /\ \E g \in generated : g.n = last.n /\ g.rows = ret.rows

\* the rows of the table that lie in a city the query reports
InReportedCity(listings, report) ==
    SelectSeq(listings,
              LAMBDA r : \E i \in 1..Len(report) : report[i].city = r.city)

\* C6 as claimed: after clean_data the per-city counts of the pandas group-by and
\* of the SQL query of the most expensive cities each sum to the number of rows
\* of the cleaned dataset.
C6_CountsSumToRows ==
    (cleaned /\ ~last.raised) =>
        /\ last.op = "perform_exploratory_analysis" =>
                SumSeq(Column(ret.city_prices, "count")) = Len(df.rows)
        /\ last.op = "perform_sql_analysis" =>
                SumSeq(Column(ret.expensive_cities, "num_listings")) = Len(df.rows)

\* C6 as amended: after clean_data the per-city counts of the pandas group-by sum
\* to the number of rows of the cleaned dataset; the counts of the SQL query sum
\* to the number of rows of the listings table that lie in the ten cities it
\* reports, which is every row of the table when it holds at most ten cities,
\* the table being the rows self.df held when it was populated.
C6_CountsSumToReportedRows ==
    (cleaned /\ ~last.raised) =>
        /\ last.op = "perform_exploratory_analysis" =>
                SumSeq(Column(ret.city_prices, "count")) = Len(df.rows)
        /\ last.op = "perform_sql_analysis" =>
                LET table == db_connection.listings
                    report == ret.expensive_cities
                    n_cities == Cardinality(Values(table, "city"))
                IN  /\ Len(report) = Min(TopCitiesLimit, n_cities)
                    /\ SumSeq(Column(report, "num_listings"))
                            = Len(InReportedCity(table, report))
                    /\ n_cities <= TopCitiesLimit =>
                            SumSeq(Column(report, "num_listings")) = Len(table)

\* the query runs on a table of several listings in at most ten cities
C6_Witness ==
    /\ cleaned
    /\ last.op = "perform_sql_analysis"
    /\ ~last.raised
    /\ Len(db_connection.listings) >= 2
    /\ db_connection.listings = to_sql(df.rows)
    /\ SumSeq(Column(ret.expensive_cities, "num_listings")) = Len(df.rows)

DownstreamOps ==
    {"create_database", "perform_exploratory_analysis", "perform_sql_analysis",
     "correlation_analysis", "build_price_prediction_model",
     "create_visualizations", "generate_report"}

\* C8: once clean_data has run, no call of a downstream stage changes self.df.
C8_DownstreamReadOnly ==
    [][(cleaned /\ last'.op \in DownstreamOps) => df' = df]_vars

\* a downstream stage has run on a cleaned dataset of several rows
C8_Witness ==
    /\ cleaned
    /\ last.op = "perform_exploratory_analysis"
    /\ ~last.raised
    /\ Len(df.rows) >= 2
    /\ insights.has

\* C9: after clean_data no rating is null: a rating that was null is the median
\* of the ratings that were not, and a rating that was not null is unchanged.
C9_NoNullRating ==
    (last.op = "clean_data" /\ ~last.raised) =>
        \A i \in 1..Len(df.rows) :
            LET was == RowOf(preDf.rows, df.rows[i].listing_id).review_scores_rating
                now == df.rows[i].review_scores_rating
            IN  /\ now # NaN
                /\ was # NaN => now = was
                /\ was = NaN => now = rating_median(preDf.rows)

\* C10: the amenity query returns a 'with' and a 'without' row for each of the
\* four amenity flags both of whose values occur in the cleaned dataset.
C10_FourAmenities ==
    (/\ last.op = "perform_sql_analysis"
     /\ ~last.raised
     /\ cleaned
     /\ db_connection.listings = to_sql(df.rows)) =>
        \A i \in 1..Len(amenities) :
            (/\ flag_is(df.rows, amenities[i], TRUE) # <<>>
             /\ flag_is(df.rows, amenities[i], FALSE) # <<>>) =>
                Cardinality({k \in 1..Len(ret.amenity_impact) :
                                ret.amenity_impact[k].flag = amenities[i]}) = 2

\* C11: once a query store exists it is the only one and it is only queried: no
\* step made while self.db_connection holds a store opens another store or
\* writes the 'listings' table of the one it holds.
C11_StoreCreatedOnce ==
    [][~db_connection.isNone => db_connection' = db_connection]_vars

\* the room-type factors the claim C12 names, in tenths
C12_RoomFactor ==
    [r \in {"Entire home/apt", "Private room", "Shared room", "Hotel room"} |->
        CASE r = "Entire home/apt" -> 15
          [] r = "Private room" -> 7
          [] r = "Shared room" -> 4
          [] OTHER -> 12]

\* 100 x city multiplier x room-type multiplier, in cents
C12_Expected(city, room_type) ==
    100 * city_multipliers(city) * C12_RoomFactor[room_type]

\* the generator has just returned rows (directly or through load_data)
C12_Generated ==
    \/ last.op = "_generate_sample_data"
    \/ last.op = "load_data" /\ ~last.raised

\* C12: every listing the generator returns is priced from the base price
\* 100 x city multiplier x room-type multiplier (1.5, 0.7, 0.4, 1.2), to which
\* the additive terms, the noise and the floor are applied; New York with
\* Entire home/apt has the base price 225.
C12_BasePrice ==
    C12_Generated =>
        \A i \in 1..Len(ret.rows) :
            LET d == DrawAt(Seeded(SEED), i - 1)
                row == ret.rows[i]
                base == C12_Expected(row.city, row.room_type)
            IN  /\ row.price =
                      Max(PriceFloor * 100,
                          RoundDiv((base + additive_terms(d)) * d.noise, 100))
                /\ (row.city = "New York" /\ row.room_type = "Entire home/apt")
                      => base = 22500

\* a generated New York Entire home/apt whose price is 225 plus its additive terms
C12_Witness ==
    /\ last.op = "_generate_sample_data"
    /\ \E i \in 1..Len(ret.rows) :
          /\ ret.rows[i].city = "New York"
          /\ ret.rows[i].room_type = "Entire home/apt"
          /\ ret.rows[i].price = 22500 + additive_terms(DrawAt(Seeded(SEED), i - 1))

\* C13: whenever perform_sql_analysis runs its queries, the 'listings' table
\* holds exactly the rows of the current self.df (as to_sql stores them).
C13_TableIsCurrentFrame ==
    (last.op = "perform_sql_analysis" /\ ~last.raised) =>
        (~df.isNone /\ db_connection.listings = to_sql(df.rows))

====
